---- MODULE Spec2Model ----
(***************************************************************************)
(* Model of src/index.ts: the station catalogue, the identity string of a  *)
(* station (Station.toString), the basket filter (getBasket, match), the   *)
(* exclusion filter (exclude), the lookup (fromString), the derived line   *)
(* list (lines, getSortIndex) and the random draw (generate).              *)
(*                                                                         *)
(* Texts that the code builds by concatenation (name, disambiguation, the  *)
(* identity string) are sequences of one-character strings.  Line names    *)
(* are only compared and collated, so they are TLA+ strings.               *)
(* An optional value (T | null, T | undefined) is <<>> when absent and     *)
(* <<v>> when present.  An array that the code only inspects with          *)
(* some/includes is a set when it is an argument.                          *)
(***************************************************************************)
EXTENDS Integers, Sequences, FiniteSets, TLC

VARIABLES stations, lines, op, args, result

vars == <<stations, lines, op, args, result>>

----------------------------------------------------------------------------
(* Bounds of the model *)

MaxCatalogue == 2      \* longest catalogue
MaxArg == 2            \* most values in one getBasket argument
MaxBasket == 3         \* longest caller-supplied basket
MaxExclude == 2        \* longest toExclude list
MaxNegCount == 2       \* counts range over -MaxNegCount .. MaxBasket + 1
MaxText == 5           \* most characters in the texts of two stations

----------------------------------------------------------------------------
(* Optional values *)

Null == <<>>
Undefined == <<>>
Some(v) == <<v>>

Range(seq) == {seq[i] : i \in 1..Len(seq)}

----------------------------------------------------------------------------
(* Enumerations and constants *)

RiverBank == [NORTH |-> "North", SOUTH |-> "South"]

Mode == [LU |-> "Underground", DLR |-> "DLR", NR |-> "National Rail"]

CPAY == 16

SFA == 0

tflLines ==
    << "Bakerloo", "Central", "Circle", "District", "Hammersmith & City",
       "Jubilee", "Metropolitan", "Northern", "Piccadilly", "Victoria",
       "Waterloo & City", "DLR", "Overground", "Elizabeth line", "Tram" >>

----------------------------------------------------------------------------
(* Station and its identity string *)

Station(name, disambiguation, localAuthority, lines_, zones, modes, riverBanks) ==
    [ name |-> name, disambiguation |-> disambiguation,
      localAuthority |-> localAuthority, lines |-> lines_,
      zones |-> zones, modes |-> modes, riverBanks |-> riverBanks ]

\* toString with the disambiguation appended without the " (" and ")".
toStringBare(s) ==
    s.name \o (IF s.disambiguation = Null THEN <<>> ELSE s.disambiguation[1])

toString(s) ==
    s.name \o (IF s.disambiguation = Null
               THEN <<>>
               ELSE <<" ", "(">> \o s.disambiguation[1] \o <<")">>)

----------------------------------------------------------------------------
(* The stations the model draws catalogues and baskets from.  EustonU and  *)
(* EustonP have different (name, disambiguation) pairs and the same        *)
(* identity string.                                                        *)

Euston == Station(<<"e">>, Null, "Camden",
                  <<"Victoria", "Northern">>, <<1>>, <<Mode.LU>>,
                  <<RiverBank.NORTH>>)

EustonNR == Station(<<"e">>, Some(<<"n">>), "Camden",
                    <<"Zigzag Line", "Thameslink", "Overground">>, <<1, 2>>,
                    <<Mode.NR>>, <<RiverBank.NORTH>>)

Bank == Station(<<"b">>, Null, "City of London",
                <<"DLR", "Circle", "Northern">>, <<2>>,
                <<Mode.LU, Mode.DLR>>, <<RiverBank.NORTH, RiverBank.SOUTH>>)

EustonU == Station(<<"e">>, Some(<<>>), "Kent",
                   <<"Thameslink">>, <<CPAY>>, <<Mode.NR>>,
                   <<RiverBank.SOUTH>>)

EustonP == Station(<<"e", " ", "(", ")">>, Null, "Newham",
                   <<"Victoria", "Circle", "Zigzag Line">>, <<SFA, 3>>, <<Mode.DLR>>,
                   <<RiverBank.SOUTH>>)

Pool == {Euston, EustonNR, Bank, EustonU, EustonP}

SeqsUpTo(S, n) == UNION {[1..k -> S] : k \in 0..n}

SubsetsUpTo(S, n) == {x \in SUBSET S : Cardinality(x) <= n}

Optional(S) == {Undefined} \cup {Some(x) : x \in S}

----------------------------------------------------------------------------
(* Line ordering *)

IndexOf(seq, x) ==
    IF \E i \in 1..Len(seq) : seq[i] = x
    THEN (CHOOSE i \in 1..Len(seq) :
              seq[i] = x /\ \A j \in 1..(i - 1) : seq[j] # x) - 1
    ELSE -1

\* getSortIndex returning indexOf unchanged, -1 for a line not in tflLines.
getSortIndexRaw(line) == IndexOf(tflLines, line)

getSortIndex(line) ==
    LET tflIndex == IndexOf(tflLines, line)
    IN IF tflIndex # -1 THEN tflIndex ELSE Len(tflLines)

\* The en-GB collation of the line names of the model.
Collation ==
    << "Bakerloo", "Central", "Circle", "District", "DLR", "Elizabeth line",
       "Hammersmith & City", "Jubilee", "Metropolitan", "Northern",
       "Overground", "Piccadilly", "Thameslink", "Tram", "Victoria",
       "Waterloo & City", "Zigzag Line" >>

localeCompare(a, b) ==
    IF IndexOf(Collation, a) < IndexOf(Collation, b) THEN -1
    ELSE IF IndexOf(Collation, a) > IndexOf(Collation, b) THEN 1
    ELSE 0

compareLines(a, b) ==
    LET a_index == getSortIndex(a)
        b_index == getSortIndex(b)
    IN IF a_index = b_index
       THEN (IF a = b THEN 0 ELSE localeCompare(a, b))
       ELSE a_index - b_index

\* Array.prototype.sort: a stable sort by the comparator.
InsertSorted(sorted, x) ==
    LET after == {i \in 1..Len(sorted) : compareLines(sorted[i], x) > 0}
        k == IF after = {} THEN Len(sorted) + 1
             ELSE CHOOSE i \in after : \A j \in after : i <= j
    IN SubSeq(sorted, 1, k - 1) \o <<x>> \o SubSeq(sorted, k, Len(sorted))

RECURSIVE sort(_)
sort(arr) ==
    IF arr = <<>> THEN <<>>
    ELSE InsertSorted(sort(SubSeq(arr, 1, Len(arr) - 1)), arr[Len(arr)])

RECURSIVE flatMapLines(_)
flatMapLines(cat) ==
    IF cat = <<>> THEN <<>>
    ELSE cat[1].lines \o flatMapLines(Tail(cat))

\* [...new Set(arr)]: the first occurrence of every value, in order.
RECURSIVE SetOf(_)
SetOf(arr) ==
    IF arr = <<>> THEN <<>>
    ELSE LET front == SetOf(SubSeq(arr, 1, Len(arr) - 1))
             x == arr[Len(arr)]
         IN IF x \in Range(front) THEN front ELSE Append(front, x)

linesOf(cat) == sort(SetOf(flatMapLines(cat)))

----------------------------------------------------------------------------
(* Basket filter *)

\* match with every in place of some.
matchEvery(input, data) ==
    input = Undefined \/ \A element \in input[1] : element \in Range(data)

match(input, data) ==
    input = Undefined \/ \E element \in input[1] : element \in Range(data)

getBasket(zones, modes, riverBanks, lines_) ==
    SelectSeq(stations,
              LAMBDA station :
                  /\ match(zones, station.zones)
                  /\ match(modes, station.modes)
                  /\ match(riverBanks, station.riverBanks)
                  /\ match(lines_, station.lines))

----------------------------------------------------------------------------
(* Lookup *)

\* fromString comparing the id with the station's name alone.
fromStringByName(id) ==
    LET hits == SelectSeq(stations, LAMBDA station : station.name = id)
    IN IF hits = <<>> THEN Null ELSE Some(hits[1])

fromString(id) ==
    LET hits == SelectSeq(stations, LAMBDA station : toString(station) = id)
    IN IF hits = <<>> THEN Null ELSE Some(hits[1])

----------------------------------------------------------------------------
(* Exclusion filter *)

\* exclude comparing names in place of identity strings.
excludeByName(basket, exclude_) ==
    SelectSeq(basket,
              LAMBDA station :
                  ~\E k \in 1..Len(exclude_) : exclude_[k].name = station.name)

exclude(basket, exclude_) ==
    SelectSeq(basket,
              LAMBDA station :
                  ~\E k \in 1..Len(exclude_) :
                      toString(exclude_[k]) = toString(station))

----------------------------------------------------------------------------
(* Completion of a call *)

Return(v) == [kind |-> "return", value |-> v]

Throw(class, message) == [kind |-> "throw", error |-> class, message |-> message]

NotEnoughMessage == <<"There are not enough stations to be drawn.">>

NotFoundMessage == <<"The starting station cannot be found in the basket.">>

----------------------------------------------------------------------------
(* Random draw *)

Orderings(n) ==
    {p \in [1..n -> 1..n] : \A i, j \in 1..n : i # j => p[i] # p[j]}

\* arrayShuffle: the permutation p of arr; every permutation is an outcome.
arrayShuffle(arr, p) == [i \in 1..Len(arr) |-> arr[p[i]]]

\* The array generate hands to arrayShuffle.
shuffled(basket, startingStation) ==
    IF startingStation = Undefined
    THEN basket
    ELSE SelectSeq(basket,
                   LAMBDA station :
                       toString(station) # toString(startingStation[1]))

\* notEnough letting through a count one above the basket's length.
notEnoughOffByOne(count, basket) == Len(basket) + 1 < count

notEnough(count, basket) == Len(basket) < count

\* results with the basket filtered by name in place of identity string
\* (the rest is left in basket order).
resultsByName(basket, startingStation, p) ==
    IF startingStation = Undefined
    THEN arrayShuffle(basket, p)
    ELSE LET rest == SelectSeq(basket,
                               LAMBDA station :
                                   station.name # startingStation[1].name)
         IN <<startingStation[1]>> \o rest

results(basket, startingStation, p) ==
    IF startingStation = Undefined
    THEN arrayShuffle(basket, p)
    ELSE <<startingStation[1]>>
             \o arrayShuffle(shuffled(basket, startingStation), p)

\* startNotFound accepting a results array longer than the basket.
startNotFoundShorter(res, basket) == Len(res) < Len(basket)

startNotFound(res, basket) == Len(res) # Len(basket)

\* Array.prototype.slice(0, end): a negative end counts from the end of the
\* array, an end beyond the array stops at its length.
slice(arr, end) ==
    LET len == Len(arr)
        final == IF end < 0
                 THEN (IF len + end > 0 THEN len + end ELSE 0)
                 ELSE (IF end < len THEN end ELSE len)
    IN SubSeq(arr, 1, final)

\* generate with the two checks in the opposite order.
generateFoundFirst(count, basket, startingStation, p) ==
    LET res == results(basket, startingStation, p)
    IN IF startNotFound(res, basket)
       THEN Throw("RangeError", NotFoundMessage)
       ELSE IF notEnough(count, basket)
       THEN Throw("RangeError", NotEnoughMessage)
       ELSE Return(slice(res, count))

generate(count, basket, startingStation, p) ==
    IF notEnough(count, basket)
    THEN Throw("RangeError", NotEnoughMessage)
    ELSE LET res == results(basket, startingStation, p)
         IN IF startNotFound(res, basket)
            THEN Throw("RangeError", NotFoundMessage)
            ELSE Return(slice(res, count))

----------------------------------------------------------------------------
(* Catalogue operations: the catalogue and the derived lines are built     *)
(* once; getBasket and fromString read them.  op, args and result record   *)
(* the last call only and no call changes stations or lines, so a call     *)
(* made after another call ends in the state it ends in when made first:   *)
(* the actions are taken from the loaded state.                            *)

ZoneValues == {1, 2, CPAY}
ModeValues == {Mode.LU, Mode.DLR, Mode.NR}
RiverBankValues == {RiverBank.NORTH, RiverBank.SOUTH}
LineValues == {"Victoria", "DLR", "Thameslink"}

Ids == {toString(s) : s \in Pool} \cup {<<"e", " ", "(">>, <<"z">>, <<>>}

Init ==
    /\ stations \in SeqsUpTo(Pool, MaxCatalogue)
    /\ lines = linesOf(stations)
    /\ op = "load"
    /\ args = <<>>
    /\ result = [kind |-> "none"]

GetBasket ==
    /\ op = "load"
    /\ \E zones \in Optional(SubsetsUpTo(ZoneValues, MaxArg)),
       modes \in Optional(SubsetsUpTo(ModeValues, MaxArg)),
       riverBanks \in Optional(SubsetsUpTo(RiverBankValues, MaxArg)),
       lines_ \in Optional(SubsetsUpTo(LineValues, MaxArg)) :
        /\ op' = "getBasket"
        /\ args' = [zones |-> zones, modes |-> modes,
                    riverBanks |-> riverBanks, lines |-> lines_]
        /\ result' = Return(getBasket(zones, modes, riverBanks, lines_))
        /\ UNCHANGED <<stations, lines>>

FromString ==
    /\ op = "load"
    /\ \E id \in Ids :
        /\ op' = "fromString"
        /\ args' = [id |-> id]
        /\ result' = Return(fromString(id))
        /\ UNCHANGED <<stations, lines>>

Next == GetBasket \/ FromString

Spec == Init /\ [][Next]_vars

----------------------------------------------------------------------------
(* Operations on caller-supplied baskets: exclude and generate read their  *)
(* arguments only.                                                         *)

DrawCatalogue == <<Euston, Bank>>

Counts == (0 - MaxNegCount)..(MaxBasket + 1)

DrawInit ==
    /\ stations = DrawCatalogue
    /\ lines = linesOf(stations)
    /\ op = "load"
    /\ args = <<>>
    /\ result = [kind |-> "none"]

Exclude ==
    /\ op = "load"
    /\ \E basket \in SeqsUpTo(Pool, MaxBasket),
       exclude_ \in SeqsUpTo(Pool, MaxExclude) :
        /\ op' = "exclude"
        /\ args' = [basket |-> basket, exclude |-> exclude_]
        /\ result' = Return(exclude(basket, exclude_))
        /\ UNCHANGED <<stations, lines>>

Generate ==
    /\ op = "load"
    /\ \E count \in Counts,
       basket \in SeqsUpTo(Pool, MaxBasket),
       startingStation \in Optional(Pool) :
        \E p \in Orderings(Len(shuffled(basket, startingStation))) :
            /\ op' = "generate"
            /\ args' = [count |-> count, basket |-> basket,
                        startingStation |-> startingStation]
            /\ result' = generate(count, basket, startingStation, p)
            /\ UNCHANGED <<stations, lines>>

DrawNext == Exclude \/ Generate

SpecDraw == DrawInit /\ [][DrawNext]_vars

----------------------------------------------------------------------------
(* Properties of the catalogue operations *)

Min(S) == CHOOSE i \in S : \A j \in S : i <= j

\* The k-th smallest member of a set of indices.
Kth(S, k) == CHOOSE i \in S : Cardinality({j \in S : j < i}) = k - 1

\* The subsequence of seq at the indices in S, in order.
Pick(seq, S) == [k \in 1..Cardinality(S) |-> seq[Kth(S, k)]]

Dimensions == {"zones", "modes", "riverBanks", "lines"}

Passes(station, a) ==
    \A d \in Dimensions :
        a[d] = Undefined \/ (a[d][1] \cap Range(station[d])) # {}

\* C1: getBasket returns exactly the catalogue stations that, on every
\* dimension, have an absent argument or share a value with the argument,
\* each once and in catalogue order; with all arguments absent it returns
\* the whole catalogue, with an empty set on any dimension it returns none.
C1_BasketIsTheMatches ==
    op = "getBasket" =>
        /\ result.kind = "return"
        /\ result.value =
               Pick(stations, {i \in 1..Len(stations) : Passes(stations[i], args)})
        /\ (\A d \in Dimensions : args[d] = Undefined) => result.value = stations
        /\ (\E d \in Dimensions : args[d] = Some({})) => result.value = <<>>

C1_Witness ==
    /\ op = "getBasket"
    /\ Len(stations) = 2
    /\ Len(result.value) = 1
    /\ result.value[1] = stations[2]
    /\ args.zones # Undefined /\ args.modes # Undefined
    /\ args.riverBanks = Undefined
    /\ args.lines # Undefined /\ Cardinality(args.lines[1]) = 2

\* C8: fromString returns the first catalogue station whose identity string
\* is the id, and null (no error) when there is none; so the lookup of the
\* identity string of a catalogue station returns a station with that
\* identity string.
C8_FromStringFindsFirst ==
    op = "fromString" =>
        LET hits == {i \in 1..Len(stations) : toString(stations[i]) = args.id}
        IN /\ result.kind = "return"
           /\ hits = {} => result.value = Null
           /\ hits # {} => result.value = Some(stations[Min(hits)])
           /\ (\E i \in 1..Len(stations) : toString(stations[i]) = args.id)
                  => /\ result.value # Null
                     /\ toString(result.value[1]) = args.id

C8_Witness ==
    /\ op = "fromString"
    /\ Len(stations) = 2
    /\ toString(stations[1]) # args.id
    /\ toString(stations[2]) = args.id
    /\ result.value = Some(stations[2])

C8_WitnessNotFound ==
    /\ op = "fromString"
    /\ stations # <<>>
    /\ result.value = Null

Listed(line) == line \in Range(tflLines)

\* C9: lines holds every line served by a catalogue station once and
\* nothing else; listed lines are in the order of tflLines, unlisted lines
\* come after all listed ones and are in alphabetical order among
\* themselves.
C9_LinesSorted ==
    /\ Range(lines) = UNION {Range(stations[i].lines) : i \in 1..Len(stations)}
    /\ \A i, j \in 1..Len(lines) : i # j => lines[i] # lines[j]
    /\ \A i, j \in 1..Len(lines) :
           i < j =>
              /\ (Listed(lines[i]) /\ Listed(lines[j]))
                    => IndexOf(tflLines, lines[i]) < IndexOf(tflLines, lines[j])
              /\ ~Listed(lines[i]) => ~Listed(lines[j])
              /\ (~Listed(lines[i]) /\ ~Listed(lines[j]))
                    => localeCompare(lines[i], lines[j]) <= 0
    /\ stations = <<EustonP>> => lines = <<"Circle", "Victoria", "Zigzag Line">>

C9_Witness ==
    /\ stations = <<EustonNR, Bank>>
    /\ lines = <<"Circle", "Northern", "DLR", "Overground",
                 "Thameslink", "Zigzag Line">>

----------------------------------------------------------------------------
(* Properties of exclude and generate *)

Identities(seq) == {toString(seq[i]) : i \in 1..Len(seq)}

DistinctIdentities(seq) ==
    \A i, j \in 1..Len(seq) : i # j => toString(seq[i]) # toString(seq[j])

Returned == op = "generate" /\ result.kind = "return"

\* C2 as stated: whenever generate returns, for any integer count, the
\* returned sequence has length count.
C2_LengthIsCountAnyInteger ==
    Returned => Len(result.value) = args.count

\* C2, amended: whenever generate returns and count is not negative, the
\* returned sequence has length exactly count.
C2_LengthIsCount ==
    (Returned /\ args.count >= 0) => Len(result.value) = args.count

C2_Witness ==
    /\ Returned
    /\ args.startingStation # Undefined
    /\ args.count = 2
    /\ Len(args.basket) = 3
    /\ Len(result.value) = 2

ValidCount == 0 <= args.count /\ args.count <= Len(args.basket)

DrawnFromBasket ==
    /\ DistinctIdentities(result.value)
    /\ Identities(result.value) \subseteq Identities(args.basket)

\* C3 as stated: for any basket and 0 <= count <= basket.length, a returned
\* sequence has pairwise distinct identity strings, each that of a member
\* of the basket.
C3_DistinctMembersAnyBasket ==
    (Returned /\ ValidCount) => DrawnFromBasket

\* C3, amended: for any basket whose members have pairwise distinct
\* identity strings and 0 <= count <= basket.length, a returned sequence
\* has pairwise distinct identity strings, each that of a member of the
\* basket.
C3_DistinctMembers ==
    (Returned /\ ValidCount /\ DistinctIdentities(args.basket))
        => DrawnFromBasket

C3_Witness ==
    /\ Returned
    /\ DistinctIdentities(args.basket)
    /\ args.startingStation # Undefined
    /\ args.count = 3
    /\ Len(result.value) = 3
    /\ result.value[2] = args.basket[3]

\* C4: with a starting station whose identity string is that of at least
\* one member of the basket and 1 <= count <= basket.length, generate
\* raises no error and the first element returned has the identity string
\* of the starting station.
C4_StartsAtStartingStation ==
    ( /\ op = "generate"
      /\ args.startingStation # Undefined
      /\ toString(args.startingStation[1]) \in Identities(args.basket)
      /\ 1 <= args.count
      /\ args.count <= Len(args.basket) )
        => /\ result.kind = "return"
           /\ toString(result.value[1]) = toString(args.startingStation[1])

\* C5: when basket.length < count, generate fails with the
\* insufficient-candidates error, with or without a starting station, also
\* when the starting station is not in the basket.
C5_NotEnoughFirst ==
    (op = "generate" /\ Len(args.basket) < args.count)
        => result = Throw("RangeError", NotEnoughMessage)

C5_Witness ==
    /\ op = "generate"
    /\ Len(args.basket) = 2
    /\ args.count = 3
    /\ args.startingStation # Undefined
    /\ toString(args.startingStation[1]) \notin Identities(args.basket)
    /\ result = Throw("RangeError", NotEnoughMessage)

\* C6: with count <= basket.length and a starting station whose identity
\* string is that of no member of the basket, generate fails with the
\* starting-station-not-found error.
C6_StartNotFound ==
    ( /\ op = "generate"
      /\ args.count <= Len(args.basket)
      /\ args.startingStation # Undefined
      /\ toString(args.startingStation[1]) \notin Identities(args.basket) )
        => result = Throw("RangeError", NotFoundMessage)

C6_Witness ==
    /\ op = "generate"
    /\ args.count = 0
    /\ Len(args.basket) = 2
    /\ args.startingStation # Undefined
    /\ toString(args.startingStation[1]) \notin Identities(args.basket)
    /\ result = Throw("RangeError", NotFoundMessage)

\* C7: exclude returns the subsequence of basket, in basket order, of the
\* stations whose identity string is that of no member of toExclude; the
\* order of toExclude does not matter, exclude(basket, basket) is empty
\* and exclude(basket, []) is basket.
C7_ExcludeByIdentity ==
    op = "exclude" =>
        LET basket == args.basket
            toExclude == args.exclude
            kept == {i \in 1..Len(basket) :
                        toString(basket[i]) \notin Identities(toExclude)}
        IN /\ result.kind = "return"
           /\ result.value = Pick(basket, kept)
           /\ \A q \in Orderings(Len(toExclude)) :
                  exclude(basket, [i \in 1..Len(toExclude) |-> toExclude[q[i]]])
                      = result.value
           /\ toExclude = basket => result.value = <<>>
           /\ toExclude = <<>> => result.value = basket

C7_Witness ==
    /\ op = "exclude"
    /\ Len(args.basket) = 3
    /\ Len(args.exclude) = 2
    /\ args.exclude[1] # args.exclude[2]
    /\ args.exclude[1] \notin Range(args.basket)
    /\ toString(args.exclude[1]) = toString(args.basket[2])
    /\ result.value = <<args.basket[1], args.basket[3]>>

----------------------------------------------------------------------------
(* Identity strings: toString applied to two stations whose names and      *)
(* disambiguations are any texts over Chars.                               *)

Chars == {"e", " ", "(", ")"}

Texts(from, to) == UNION {[1..k -> Chars] : k \in from..to}

Render ==
    /\ op = "load"
    /\ \E name1 \in Texts(1, MaxText - 1) :
      \E name2 \in Texts(1, MaxText - Len(name1)) :
        \E dis1 \in Optional(Texts(0, MaxText - Len(name1) - Len(name2))) :
          \E dis2 \in Optional(Texts(0, MaxText - Len(name1) - Len(name2)
                                         - (IF dis1 = Null THEN 0 ELSE Len(dis1[1])))) :
            LET a == Station(name1, dis1, "Camden", <<"Victoria">>, <<1>>,
                             <<Mode.LU>>, <<RiverBank.NORTH>>)
                b == Station(name2, dis2, "Camden", <<"Victoria">>, <<1>>,
                             <<Mode.LU>>, <<RiverBank.NORTH>>)
            IN /\ op' = "toString"
               /\ args' = [a |-> a, b |-> b]
               /\ result' = Return(<<toString(a), toString(b)>>)
               /\ UNCHANGED <<stations, lines>>

IdentityNext == Render

SpecIdentity == DrawInit /\ [][IdentityNext]_vars

SameKey == args.a.name = args.b.name
               /\ args.a.disambiguation = args.b.disambiguation

SameIdentity == result.value[1] = result.value[2]

HasSpaceParen(text) ==
    \E i \in 1..(Len(text) - 1) : text[i] = " " /\ text[i + 1] = "("

\* C10 as stated: for any two stations the identity strings are equal iff
\* the names are equal and the disambiguations are equal.
C10_IdentityIsKeyAnyText ==
    op = "toString" => (SameIdentity <=> SameKey)

\* C10, amended: equal (name, disambiguation) pairs have equal identity
\* strings; two stations with the same name and different disambiguations
\* have different identity strings; and when neither name contains " ("
\* the identity strings are equal iff the names are equal and the
\* disambiguations are equal.
C10_IdentityIsKey ==
    op = "toString" =>
        /\ SameKey => SameIdentity
        /\ (args.a.name = args.b.name
               /\ args.a.disambiguation # args.b.disambiguation)
              => ~SameIdentity
        /\ (~HasSpaceParen(args.a.name) /\ ~HasSpaceParen(args.b.name))
              => (SameIdentity <=> SameKey)

C10_Witness ==
    /\ op = "toString"
    /\ args.a.name = <<"e">> /\ args.a.disambiguation = Null
    /\ args.b.name = <<"e">> /\ args.b.disambiguation = Some(<<"e">>)
    /\ result.value = << <<"e">>, <<"e", " ", "(", "e", ")">> >>

====
